---- MODULE Spec2Model ----
(***************************************************************************)
(* State-machine model of the fingerprint verification core of             *)
(* swaylock-fprintd (fingerprint.c / fingerprint.h).                        *)
(*                                                                         *)
(* The core is single threaded.  Every GLib source (async call completion, *)
(* D-Bus signal, timeout) is dispatched only while some function of the    *)
(* core iterates the default main context: fingerprint_verify (one         *)
(* non-blocking iteration), or one of the busy-wait loops (fingerprint_    *)
(* init2, start_verify, run_main_context, restart_fingerprint_usb_device). *)
(* The model keeps the C call stack of the suspended functions in `stack`: *)
(* the top frame is the loop that is iterating the main context, the       *)
(* frames below are callers waiting for their callee to return.            *)
(***************************************************************************)
EXTENDS Integers, Sequences, FiniteSets, TLC

(***************************************************************************)
(* Bounds of the model.                                                    *)
(***************************************************************************)
\* time(NULL) when the process starts (any value > 60: all timestamps start at 0)
T0 == 100
\* largest value of init_id explored
MaxEpoch == 5
\* largest number of pending async continuations (calls in flight and timers)
MaxPending == 2
\* largest depth of nested main-loop iteration
MaxDepth == 2
\* largest number of device proxies created
MaxDev == 2
\* caps of the counters that the code never bounds
MaxClaimFail == 4
MaxStreak == 4
MaxFail == 1
MaxRestart == 1
MaxUsbRestart == 2

VARIABLES
    state,    \* struct FingerprintState
    usb,      \* the recovery tracker: restart_count, last_usb_restart_time, last_usb_full_restart_time
    now,      \* time(NULL)
    pending,  \* async continuations not yet dispatched: calls in flight, armed timers
    stack,    \* C call stack of the functions suspended in a main-loop iteration
    daemon,   \* what the daemon and the process environment hold for this client
    obs,      \* what the last step did that is visible outside the Session
    hist,     \* history of the session, read by the properties only
    env       \* the environment explored: the answers it may give, the bounds (never changes)

vars == <<state, usb, now, pending, stack, daemon, obs, hist, env>>

(***************************************************************************)
(* Data.                                                                   *)
(***************************************************************************)
\* memset(fingerprint_state, 0, sizeof(struct FingerprintState)).  The code reads
\* the two text buffers only for emptiness (!*state->status): a buffer is <<>> when
\* empty and Written otherwise, and the text itself goes to obs, where the display
\* shows it.  A text is the format string followed by its arguments.
ZeroState ==
    [initialized |-> FALSE, error |-> FALSE, rebind_usb |-> FALSE,
     restarting |-> FALSE, started |-> FALSE, completed |-> FALSE,
     match |-> FALSE, verifying |-> FALSE, flag_idle_restart |-> 0,
     openning_device |-> FALSE, device_signal_connected |-> FALSE,
     open_device_fail_count |-> 0, claim_device_fail_count |-> 0,
     init_id |-> 0, continous_unknown_error_count |-> 0, fail_count |-> 0,
     restart_count |-> 0, last_signal_time |-> 0, last_start_verify_time |-> 0,
     last_activity_time |-> 0, status |-> <<>>, driver_status |-> <<>>,
     manager |-> FALSE, connection |-> FALSE, device |-> 0]

\* static int restart_count = 0, last_usb_restart_time = 0, last_usb_full_restart_time = 0
ZeroUsb == [restart_count |-> 0, last_usb_restart_time |-> 0, last_usb_full_restart_time |-> 0]

\* the result strings of the VerifyStatus signal that verify_result tells apart
Retryable == {"verify-retry-scan", "verify-swipe-too-short",
              "verify-finger-not-centered", "verify-remove-and-retry"}
Results == Retryable \cup {"verify-unknown-error", "verify-disconnected",
                           "verify-match", "verify-no-match", "verify-other"}

\* a frame of the C call stack: function, place in it, and its locals
\* (id: captured init_id, t0: start_time, t1: last_try_time, n: try_count / ntry)
Frame(fn, pc, id, t0, t1, n) == [fn |-> fn, pc |-> pc, id |-> id, t0 |-> t0, t1 |-> t1, n |-> n]

\* nothing visible happened yet in this step
NoObs == [act |-> "none", stale |-> FALSE, issued |-> {}, reset |-> "none", ret |-> "none",
          result |-> "none", restart |-> FALSE, attempts |-> 0,
          request |-> "none", since |-> -1,
          message |-> <<>>, driver_message |-> <<>>]

\* devs: device proxies created so far; streak: unknown-error results in a row;
\* stops: VerifyStop calls of this round; curv: key of the latest VerifyStart call;
\* confirmed: the daemon has confirmed that call; outcome, sigdev, sigconfirmed: the
\* last result classified, the device it came from, and confirmed at that moment;
\* fresh: no new round and no restart since then; reset_at, full_at: when the reset
\* command was last run, and last run with "full" (0: never); woke: the epoch the
\* last PrepareForSleep(false) left (0: none yet); asleep: PrepareForSleep(true)
\* was handled, and since then no PrepareForSleep(false), no fingerprint_init and
\* no fingerprint_set_restart_flag
ZeroHist == [devs |-> 0, streak |-> 0, stops |-> 0, outcome |-> "none",
             sigdev |-> 0, confirmed |-> FALSE, sigconfirmed |-> FALSE, fresh |-> FALSE,
             curv |-> 0, reset_at |-> 0, full_at |-> 0, woke |-> 0,
             asleep |-> FALSE]

\* verifying: a verification runs on the device held; sleep_proxy: the handler of
\* PrepareForSleep is connected; claimed: the device proxies whose Claim the daemon
\* granted and that it was not asked to release
ZeroDaemon == [verifying |-> FALSE, sleep_proxy |-> FALSE, claimed |-> {}]

\* the world a function of the core runs in: the variables, and `in`, the
\* answers the environment gives during this step
World(in) == [st |-> state, usb |-> usb, now |-> now, pending |-> pending, stack |-> stack,
              daemon |-> daemon, obs |-> NoObs, hist |-> hist, env |-> env, in |-> in]

Top(w) == w.stack[Len(w.stack)]
Push(w, f) == [w EXCEPT !.stack = Append(@, f)]
Pop(w) == [w EXCEPT !.stack = SubSeq(@, 1, Len(@) - 1)]
\* the callee called in world w0 has not returned in w1: it is iterating the main loop
Suspended(w0, w1) == Len(w1.stack) > Len(w0.stack)
\* the caller's frame goes below the frames of the callee that suspended
Under(w0, w1, f) ==
    [w1 EXCEPT !.stack = SubSeq(@, 1, Len(w0.stack)) \o <<f>> \o SubSeq(@, Len(w0.stack) + 1, Len(@))]

Min(a, b) == IF a < b THEN a ELSE b

\* a fresh key for a pending continuation (the heap address of its closure)
FreshKey(w) ==
    LET used == {c.k : c \in w.pending}
    IN  CHOOSE k \in 1..(MaxPending + 2) : k \notin used /\ \A j \in 1..(k - 1) : j \in used

\* an async daemon call is issued / a timeout source is added
Issue(w, op, id, dev, n) ==
    [w EXCEPT !.pending = @ \cup {[k |-> FreshKey(w), op |-> op, id |-> id, dev |-> dev, n |-> n]},
              !.obs.issued = @ \cup {op}]

(***************************************************************************)
(* Leaf functions.                                                         *)
(***************************************************************************)
Written == <<"text">>
Buffer(text) == IF text = <<>> THEN <<>> ELSE Written

\* display_message: vsnprintf into state->status (the repaint of the lock screen is outside the core)
display_message(w, text) == [w EXCEPT !.st.status = Buffer(text), !.obs.message = text]

\* display_driver_message: vsnprintf into state->driver_status
display_driver_message(w, text) ==
    [w EXCEPT !.st.driver_status = Buffer(text), !.obs.driver_message = text]

should_disable_fingerprint(st) == st.fail_count >= 10 \/ st.restart_count >= 3

\* create_manager: w.in.bus is what the bus answers: "ok", "nobus" (g_bus_get_sync
\* fails) or "nomanager" (the proxy of the manager cannot be made)
create_manager(w) ==
    IF w.in.bus = "nobus"
    THEN display_driver_message([w EXCEPT !.st.connection = FALSE],
                                <<"Failed to connect to session bus: %s">>)
    ELSE IF w.in.bus = "nomanager"
    THEN display_driver_message([w EXCEPT !.st.connection = TRUE, !.st.manager = FALSE],
                                <<"Failed to get Fprintd manager: %s">>)
    ELSE [w EXCEPT !.st.connection = TRUE, !.st.manager = TRUE]

destroy_manager(w) == [w EXCEPT !.st.manager = FALSE, !.st.connection = FALSE]

\* restart_fingerprint_usb_device_: system("sudo ... restart-fingerprint [full]")
restart_fingerprint_usb_device_(w, full) ==
    [w EXCEPT !.obs.reset = IF full THEN "full" ELSE "soft",
              !.obs.since = IF w.hist.reset_at = 0 THEN -1 ELSE w.now - w.hist.reset_at,
              !.hist.reset_at = w.now,
              !.hist.full_at = IF full THEN w.now ELSE @]

\* a faulty restart_fingerprint_usb_device, without "|| tracker.restart_count >= 1"
\* at line 71: a soft request long after an earlier reset stays soft
restart_fingerprint_usb_device_no_count(w0, full, wait) ==
    LET w == [w0 EXCEPT !.obs.request = IF full THEN "full" ELSE "soft"]
    IN
    IF w.now - w.usb.last_usb_full_restart_time < 3
    THEN [w EXCEPT !.obs.reset = "skipped"]
    ELSE LET full2 == full \/ (w.now - w.usb.last_usb_restart_time < 3)
             w1 == [w EXCEPT !.usb.last_usb_restart_time = w.now,
                             !.usb.last_usb_full_restart_time = IF full2 THEN w.now ELSE @,
                             !.usb.restart_count = Min(@ + 1, MaxUsbRestart)]
             w2 == restart_fingerprint_usb_device_(w1, full2)
         IN  IF wait \/ ~w.in.pump
             THEN w2
             ELSE Push(w2, Frame("restart_fingerprint_usb_device", "pump", 0, w.now, 0, 0))

\* a faulty restart_fingerprint_usb_device, recording last_usb_full_restart_time
\* only when full was asked for, not when the request was escalated
restart_fingerprint_usb_device_no_record(w0, full, wait) ==
    LET w == [w0 EXCEPT !.obs.request = IF full THEN "full" ELSE "soft"]
    IN
    IF w.now - w.usb.last_usb_full_restart_time < 3
    THEN [w EXCEPT !.obs.reset = "skipped"]
    ELSE LET full2 == full \/ (w.now - w.usb.last_usb_restart_time < 3 \/ w.usb.restart_count >= 1)
             w1 == [w EXCEPT !.usb.last_usb_restart_time = w.now,
                             !.usb.last_usb_full_restart_time = IF full THEN w.now ELSE @,
                             !.usb.restart_count = Min(@ + 1, MaxUsbRestart)]
             w2 == restart_fingerprint_usb_device_(w1, full2)
         IN  IF wait \/ ~w.in.pump
             THEN w2
             ELSE Push(w2, Frame("restart_fingerprint_usb_device", "pump", 0, w.now, 0, 0))

\* restart_fingerprint_usb_device: w.in.pump says whether the forked child is
\* still running at the first waitpid (the loop at lines 104-108 then iterates
\* the main context); fork failing or the child being done already is pump = FALSE
restart_fingerprint_usb_device(w0, full, wait) ==
    LET w == [w0 EXCEPT !.obs.request = IF full THEN "full" ELSE "soft"]
    IN
    IF w.now - w.usb.last_usb_full_restart_time < 3
    THEN [w EXCEPT !.obs.reset = "skipped"]
    ELSE LET full2 == full \/ (w.now - w.usb.last_usb_restart_time < 3 \/ w.usb.restart_count >= 1)
             w1 == [w EXCEPT !.usb.last_usb_restart_time = w.now,
                             !.usb.last_usb_full_restart_time = IF full2 THEN w.now ELSE @,
                             !.usb.restart_count = Min(@ + 1, MaxUsbRestart)]
             w2 == restart_fingerprint_usb_device_(w1, full2)
         IN  IF wait \/ ~w.in.pump
             THEN w2
             ELSE Push(w2, Frame("restart_fingerprint_usb_device", "pump", 0, w.now, 0, 0))

\* a faulty fingerprint_close_device, without the Release call of line 833:
\* the handle is dropped and the daemon keeps the claim
fingerprint_close_device_no_release(w) ==
    IF w.st.device = 0
    THEN w
    ELSE [w EXCEPT !.st.device = 0]

\* fingerprint_close_device
fingerprint_close_device(w) ==
    IF w.st.device = 0
    THEN w
    ELSE [w EXCEPT !.obs.issued = @ \cup {"Release"}, !.st.device = 0, !.daemon.verifying = FALSE,
                   !.daemon.claimed = @ \ {w.st.device}]

\* fingerprint_deinit
fingerprint_deinit(w) ==
    LET w1 == IF ~w.st.match
              THEN display_driver_message(w, <<"Press any key to reenable fingerprint">>)
              ELSE w
        w2 == [w1 EXCEPT !.st.initialized = FALSE, !.st.init_id = @ + 1, !.st.verifying = FALSE]
    IN  destroy_manager(fingerprint_close_device(w2))

(***************************************************************************)
(* Service bootstrap.                                                      *)
(***************************************************************************)
\* fingerprint_init2, lines 396-398: the retry inside the loop, after the device reset (if any)
init2_retry(w, f) ==
    LET w1 == create_manager([w EXCEPT !.st.last_signal_time = w.now])
    IN  IF w1.st.manager /\ w1.st.connection
        THEN w1
        ELSE Push(w1, [f EXCEPT !.pc = "pump"])

\* fingerprint_init2, lines 376-398: what the loop does once g_main_context_iteration returns
init2_iteration(w, f) ==
    IF f.id # w.st.init_id
    THEN w
    ELSE IF f.n > 5 \/ w.now - f.t0 > 60
    THEN display_driver_message(w, <<"Failed to initialize fingerprint">>)
    ELSE IF w.now - f.t1 > 3
    THEN LET f2 == [f EXCEPT !.t1 = w.now, !.n = @ + 1]
         IN  IF f2.n % 2 = 0
             THEN LET w1 == restart_fingerprint_usb_device(w, FALSE, FALSE)
                  IN  IF Suspended(w, w1)
                      THEN Under(w, w1, [f2 EXCEPT !.pc = "after_reset"])
                      ELSE init2_retry(w1, f2)
             ELSE init2_retry(w, f2)
    ELSE Push(w, f)

\* fingerprint_init2, lines 363-374: up to the first test of the loop
fingerprint_init2(w) ==
    LET w1 == [w EXCEPT !.st.init_id = @ + 1, !.st.initialized = TRUE,
                        !.st.last_signal_time = w.now,
                        !.st.continous_unknown_error_count = 0,
                        !.st.openning_device = FALSE, !.st.verifying = FALSE,
                        !.hist.streak = 0]
        w2 == create_manager(display_driver_message(w1, <<"Initializing...">>))
    IN  IF w2.st.manager /\ w2.st.connection
        THEN w2
        ELSE Push(w2, Frame("fingerprint_init2", "pump", w1.st.init_id, w.now, w.now, 1))

(***************************************************************************)
(* Verification session.                                                   *)
(***************************************************************************)
\* start_verify, lines 663-674: after the wait
start_verify_finish(w) ==
    IF w.st.error
    THEN [display_driver_message(w, <<"Failed to start verification: %s">>) EXCEPT !.st.error = FALSE]
    ELSE IF w.st.status = <<>>
    THEN display_message(w, <<"...">>)
    ELSE w

\* start_verify, lines 647-660: what the wait does once g_main_context_iteration
\* returns; f.n is the key of the VerifyStart call this activation issued
start_verify_iteration(w, f) ==
    IF f.id # w.st.init_id
    THEN w
    ELSE IF w.now - f.t0 > 10
    THEN LET w1 == [w EXCEPT !.pending = {IF c.k = f.n /\ c.op = "VerifyStart"
                                          THEN [c EXCEPT !.n = 1] ELSE c : c \in @}]
             w2 == display_driver_message(w1, <<"Failed to start verification (timeout)">>)
         IN  Issue([w2 EXCEPT !.st.restarting = TRUE, !.obs.restart = TRUE, !.hist.fresh = FALSE],
                   "step1", w.st.init_id, 0, 0)
    ELSE IF w.st.started \/ w.st.error
    THEN start_verify_finish(w)
    ELSE Push(w, f)

\* start_verify, lines 613-645: up to the first test of the wait
start_verify(w) ==
    IF should_disable_fingerprint(w.st)
    THEN w
    ELSE IF w.st.verifying \/ w.st.restarting \/ w.st.device = 0
    THEN w
    ELSE LET w1 == [w EXCEPT !.st.last_start_verify_time = w.now, !.st.verifying = TRUE,
                             !.st.started = FALSE, !.st.completed = FALSE,
                             !.st.match = FALSE,
                             !.hist.confirmed = FALSE, !.hist.fresh = FALSE,
                             !.hist.stops = 0,
                             !.hist.curv = FreshKey(w)]
             w2 == Issue(w1, "VerifyStart", w.st.init_id, w.st.device, 0)
         IN  IF w2.st.error
             THEN start_verify_finish(w2)
             ELSE Push(w2, Frame("start_verify", "pump", w.st.init_id, w.now, 0, FreshKey(w)))

connect_signal_and_start_verify(w) ==
    IF ~w.st.device_signal_connected
    THEN start_verify([w EXCEPT !.st.device_signal_connected = TRUE])
    ELSE w

\* verify_result, lines 514-539: the text shown; status is <<>> for NULL
verify_result_text(st, status, is_unknown) ==
    IF status # <<>>
    THEN IF st.match
         THEN <<"FP OK: %s">> \o status
         ELSE IF is_unknown
         THEN <<"FP Failed (%d): %s", st.continous_unknown_error_count>> \o status
         ELSE <<"FP Failed (%d): %s", st.fail_count>> \o status
    ELSE IF st.match
         THEN <<"FP OK">>
         ELSE <<"FP Failed (%d)", st.fail_count>>

\* verify_result, lines 454-504: the counters after the result is classified
verify_result_classify(st, result) ==
    IF result = "verify-unknown-error"
    THEN [st EXCEPT !.continous_unknown_error_count = @ + 1]
    ELSE IF result = "verify-disconnected"
    THEN st
    ELSE IF result = "verify-match"
    THEN [st EXCEPT !.continous_unknown_error_count = 0]
    ELSE IF result = "verify-no-match"
    THEN [st EXCEPT !.continous_unknown_error_count = 0, !.fail_count = @ + 1]
    ELSE st

\* a faulty end of verify_result, without the test of last_activity_time at
\* line 558: a restart that was decided is always scheduled
verify_result_decide_always_restart(w, kill, should_restart) ==
    IF kill
    THEN fingerprint_deinit(w)
    ELSE IF should_restart /\ ~w.st.match
    THEN Issue([w EXCEPT !.st.restarting = TRUE, !.st.rebind_usb = TRUE,
                         !.obs.restart = TRUE, !.hist.fresh = FALSE],
               "step1", w.st.init_id, 0, 0)
    ELSE w

\* verify_result, lines 551-567: after VerifyStop succeeded
verify_result_decide(w, kill, should_restart) ==
    IF kill
    THEN fingerprint_deinit(w)
    ELSE IF should_restart /\ ~w.st.match
    THEN IF w.now - w.st.last_activity_time > 60
         THEN fingerprint_deinit(w)
         ELSE Issue([w EXCEPT !.st.restarting = TRUE, !.st.rebind_usb = TRUE,
                              !.obs.restart = TRUE, !.hist.fresh = FALSE],
                    "step1", w.st.init_id, 0, 0)
    ELSE w

\* verify_result, lines 454-477: the text shown for a retryable result
retry_text(result) ==
    IF result = "verify-retry-scan" THEN <<"Retry">>
    ELSE IF result = "verify-swipe-too-short" THEN <<"Retry, too short">>
    ELSE IF result = "verify-finger-not-centered" THEN <<"Retry, not centered">>
    ELSE <<"Remove and retry">>

\* verify_result; w.in.stop is whether VerifyStop succeeds
verify_result(w, result) ==
    LET w1 == [w EXCEPT !.st.last_signal_time = w.now,
                        !.st.match = (result = "verify-match"),
                        !.obs.result = result,
                        !.hist.outcome = IF result = "verify-match" THEN "match" ELSE "other",
                        !.hist.sigdev = w.st.device,
                        !.hist.sigconfirmed = w.hist.confirmed, !.hist.fresh = TRUE,
                        !.hist.streak = IF result = "verify-unknown-error"
                                        THEN Min(@ + 1, MaxStreak + 1) ELSE 0]
    IN  IF result \in Retryable
        THEN display_message([w1 EXCEPT !.st.continous_unknown_error_count = 0],
                             retry_text(result))
        ELSE LET w2 == [w1 EXCEPT !.st = verify_result_classify(@, result)]
                 is_unknown == result = "verify-unknown-error"
                 restart0 == is_unknown /\ w2.st.continous_unknown_error_count > 3
                 status0 == IF is_unknown THEN <<"Unknown error">>
                            ELSE IF result = "verify-disconnected" THEN <<"Device disconnected">>
                            ELSE IF result \in {"verify-match", "verify-no-match"} THEN <<>>
                            ELSE <<result>>
                 kill == should_disable_fingerprint(w2.st)
                 status == IF kill THEN <<"FP Disabled">> ELSE status0
                 should_restart == restart0 /\ ~kill
                 w3 == display_message(w2, verify_result_text(w2.st, status, is_unknown))
                 w4 == [w3 EXCEPT !.st.completed = TRUE, !.st.verifying = FALSE,
                                  !.obs.issued = @ \cup {"VerifyStop"},
                                  !.hist.stops = Min(@ + 1, 2)]
             IN  IF ~w.in.stop
                 THEN display_driver_message(w4, <<"Failed to stop verification: %s">>)
                 ELSE verify_result_decide([w4 EXCEPT !.daemon.verifying = FALSE],
                                           kill, should_restart)

\* verify_started_cb; c is the VerifyStart call that completes (c.n = 1: cancelled)
verify_started_cb(w, c, ok) ==
    IF ~ok
    THEN [w EXCEPT !.st.error = TRUE,
                   !.hist.curv = IF c.k = @ THEN 0 ELSE @]
    ELSE display_driver_message(
             [w EXCEPT !.st.started = TRUE,
                       !.daemon.verifying = IF c.dev = w.st.device THEN TRUE ELSE @,
                       !.hist.confirmed = IF c.k = w.hist.curv THEN TRUE ELSE @,
                       !.hist.curv = IF c.k = @ THEN 0 ELSE @],
             <<"Scan your finger">>)

proxy_signal_cb(w, signal_name, result) ==
    IF ~w.st.started \/ w.st.restarting
    THEN w
    ELSE IF signal_name = "VerifyFingerSelected"
    THEN w
    ELSE IF signal_name # "VerifyStatus"
    THEN w
    ELSE verify_result(w, result)

(***************************************************************************)
(* Device acquisition pipeline.                                            *)
(***************************************************************************)
open_device_async(w) ==
    IF w.st.openning_device
    THEN w
    ELSE LET w1 == [w EXCEPT !.st.device_signal_connected = FALSE, !.st.device = 0,
                             !.st.openning_device = TRUE,
                             !.st.open_device_fail_count = 0]
         IN  Issue(display_driver_message(w1, <<"Getting default device...">>),
                   "GetDefaultDevice", w.st.init_id, 0, 0)

\* open_device_async_get_default_device_cb, lines 308-320: retry or give up
get_default_device_retry(w, id, ntry) ==
    IF ntry < 5
    THEN Issue(w, "GetDefaultDevice", id, 0, 0)
    ELSE [w EXCEPT !.st.openning_device = FALSE]

\* run_main_context(init_id, state, 3), called at line 302: the first iteration
get_default_device_settle(w, id, ntry) ==
    Push(w, Frame("run_main_context", "pump", id, w.now, 0, ntry))

\* run_main_context, lines 36-44, and its caller's lines 302-320: what happens
\* once g_main_context_iteration returns
run_main_context_iteration(w, f) ==
    IF f.id # w.st.init_id
    THEN w
    ELSE IF w.now - f.t0 < 3
    THEN Push(w, f)
    ELSE get_default_device_retry(w, f.id, f.n)

\* open_device_async_get_default_device_cb; c is the call that completes
open_device_async_get_default_device_cb(w, c, ok) ==
    IF c.id # w.st.init_id
    THEN w
    ELSE IF ~ok
    THEN LET ntry == w.st.open_device_fail_count + 1
             w1 == [display_driver_message(w, <<"Failed to get default device">>)
                       EXCEPT !.st.open_device_fail_count = ntry]
         IN  IF ntry >= 2 /\ ntry <= 3
             THEN LET w2 == restart_fingerprint_usb_device(w1, ntry = 3, FALSE)
                  IN  IF Suspended(w1, w2)
                      THEN Under(w1, w2, Frame("open_device_async_get_default_device_cb",
                                               "after_reset", c.id, 0, 0, ntry))
                      ELSE get_default_device_settle(w2, c.id, ntry)
             ELSE get_default_device_retry(w1, c.id, ntry)
    ELSE Issue([display_driver_message(w, <<"FP Proxying">>)
                   EXCEPT !.st.open_device_fail_count = 0],
               "ProxyNew", c.id, 0, 0)

\* open_device_async_device_proxy_new_cb; a new device proxy gets the next handle
open_device_async_device_proxy_new_cb(w, c, ok) ==
    IF c.id # w.st.init_id
    THEN w
    ELSE IF ~ok
    THEN [display_driver_message(w, <<"Failed to connect to device: %s">>)
             EXCEPT !.st.openning_device = FALSE]
    ELSE Issue([display_driver_message(w, <<"FP Claiming">>) EXCEPT !.hist.devs = @ + 1],
               "Claim", c.id, w.hist.devs + 1, 1)

\* open_device_async_device_claim_cb, lines 229-238: after the device reset;
\* n is the number of Claim calls this acquisition has made
claim_escalate(w, n) ==
    Issue([w EXCEPT !.st.openning_device = FALSE, !.st.restarting = TRUE,
                    !.st.rebind_usb = TRUE, !.obs.restart = TRUE, !.hist.fresh = FALSE, !.obs.attempts = n],
          "step1", w.st.init_id, 0, 0)

\* open_device_async_device_claim_cb; c.n counts the Claim calls of this acquisition
open_device_async_device_claim_cb(w, c, ok) ==
    IF c.id # w.st.init_id
    THEN w
    ELSE IF ~ok
    THEN LET w1 == [display_driver_message(w, <<"Failed to claim the device: %s">>)
                       EXCEPT !.st.claim_device_fail_count = @ + 1]
         IN  IF w1.st.claim_device_fail_count < 3
             THEN Issue(w1, "Claim", c.id, c.dev, c.n + 1)
             ELSE LET w2 == restart_fingerprint_usb_device(w1, FALSE, FALSE)
                  IN  IF Suspended(w1, w2)
                      THEN Under(w1, w2, Frame("open_device_async_device_claim_cb",
                                               "after_reset", c.id, 0, 0, c.n))
                      ELSE claim_escalate(w2, c.n)
    ELSE connect_signal_and_start_verify(
             [w EXCEPT !.st.openning_device = FALSE, !.st.device = c.dev,
                       !.daemon.verifying = FALSE])

(***************************************************************************)
(* Full restart sequence, sleep and the caller-facing operations.          *)
(***************************************************************************)
\* restart_verify_step_1, line 440
restart_verify_step_1_finish(w) == Issue(w, "step2", w.st.init_id, 0, 0)

restart_verify_step_1(w) ==
    LET w1 == fingerprint_deinit([w EXCEPT !.st.last_signal_time = w.now,
                                           !.st.init_id = @ + 1])
        w2 == [w1 EXCEPT !.st.started = FALSE, !.st.completed = FALSE, !.st.match = FALSE]
    IN  IF w2.st.rebind_usb
        THEN LET w3 == [w2 EXCEPT !.st.rebind_usb = FALSE]
                 w4 == restart_fingerprint_usb_device(w3, FALSE, FALSE)
             IN  IF Suspended(w3, w4)
                 THEN Under(w3, w4, Frame("restart_verify_step_1", "after_reset", 0, 0, 0, 0))
                 ELSE restart_verify_step_1_finish(w4)
        ELSE restart_verify_step_1_finish(w2)

\* fingerprint_verify, lines 733-735: the call enters its one iteration of the main context
fingerprint_verify(w) ==
    Push(w, Frame("fingerprint_verify", "pump", w.st.init_id, 0, 0, 0))

\* restart_verify_step_2, lines 412-413
restart_verify_step_2_finish(w) == fingerprint_verify(display_message(w, <<>>))

restart_verify_step_2(w) ==
    LET w1 == [w EXCEPT !.st.last_signal_time = w.now, !.st.restart_count = @ + 1,
                        !.st.restarting = FALSE]
    IN  IF ~should_disable_fingerprint(w1.st)
        THEN LET w2 == fingerprint_init2(w1)
             IN  IF Suspended(w1, w2)
                 THEN Under(w1, w2, Frame("restart_verify_step_2", "after_init2", 0, 0, 0, 0))
                 ELSE restart_verify_step_2_finish(w2)
        ELSE IF w1.st.status = <<>>
        THEN display_driver_message(w1, <<"Disabled">>)
        ELSE w1

\* handle_sleep_signal for the PrepareForSleep signal
handle_sleep_signal(w, going_to_sleep) ==
    IF ~going_to_sleep
    THEN LET w1 == fingerprint_init2(restart_fingerprint_usb_device(fingerprint_deinit(w), FALSE, TRUE))
         IN  [w1 EXCEPT !.hist.woke = w1.st.init_id, !.hist.asleep = FALSE]
    ELSE [fingerprint_deinit(w) EXCEPT !.hist.asleep = TRUE]

\* fingerprint_init, lines 718-728: the PrepareForSleep handler is connected
fingerprint_init_finish(w) == [w EXCEPT !.daemon.sleep_proxy = TRUE]

fingerprint_init(w) ==
    LET w1 == [w EXCEPT !.st = ZeroState, !.hist.asleep = FALSE]
        w2 == fingerprint_init2(w1)
    IN  IF Suspended(w1, w2)
        THEN Under(w1, w2, Frame("fingerprint_init", "after_init2", 0, 0, 0, 0))
        ELSE fingerprint_init_finish(w2)

fingerprint_set_restart_flag(w, force) ==
    LET bit == IF force THEN 2 ELSE 1
        old == w.st.flag_idle_restart
    IN  [w EXCEPT !.st.flag_idle_restart = IF (old \div bit) % 2 = 1 THEN old ELSE old + bit,
                  !.st.last_activity_time = w.now,
                  !.hist.asleep = FALSE]

\* fingerprint_verify returns v; the caller polling is the bottom of the stack
\* (restart_verify_step_2 drops the value)
fingerprint_verify_return(w, v) ==
    IF w.stack = <<>>
    THEN [w EXCEPT !.obs.ret = IF v THEN "true" ELSE "false"]
    ELSE w

\* fingerprint_verify: the callee may be suspended in a loop; false is returned after it
fingerprint_verify_call(w0, w1) ==
    IF Suspended(w0, w1)
    THEN Under(w0, w1, Frame("fingerprint_verify", "return_false", 0, 0, 0, 0))
    ELSE fingerprint_verify_return(w1, FALSE)

\* a faulty end of fingerprint_verify, without the test of match at line 815:
\* a finished round is always followed by a new one
fingerprint_verify_tail_new_round(w) ==
    IF ~w.st.manager \/ ~w.st.connection
    THEN fingerprint_verify_return(w, FALSE)
    ELSE IF w.st.device = 0
    THEN fingerprint_verify_return(open_device_async(w), FALSE)
    ELSE IF ~w.st.completed
    THEN fingerprint_verify_return(w, FALSE)
    ELSE fingerprint_verify_call(w, start_verify(w))

\* fingerprint_verify, lines 798-821
fingerprint_verify_tail(w) ==
    IF ~w.st.manager \/ ~w.st.connection
    THEN fingerprint_verify_return(w, FALSE)
    ELSE IF w.st.device = 0
    THEN fingerprint_verify_return(open_device_async(w), FALSE)
    ELSE IF ~w.st.completed
    THEN fingerprint_verify_return(w, FALSE)
    ELSE IF ~w.st.match
    THEN fingerprint_verify_call(w, start_verify(w))
    ELSE fingerprint_verify_return(w, TRUE)

\* fingerprint_verify, lines 746-787: an idle-restart flag is pending
fingerprint_verify_flag(w) ==
    LET force == w.st.flag_idle_restart \div 2 = 1
        w1 == [w EXCEPT !.st.flag_idle_restart = 0]
        st == w1.st
    IN  IF ~should_disable_fingerprint(st) /\ ~st.match /\ ~st.restarting
        THEN IF ~st.initialized
             THEN fingerprint_verify_call(w1, fingerprint_init2(w1))
             ELSE IF w.now - st.last_start_verify_time > 3 /\ force
             THEN LET w2 == [w1 EXCEPT !.st.rebind_usb = FALSE, !.st.restarting = TRUE,
                                       !.obs.restart = TRUE, !.hist.fresh = FALSE]
                  IN  fingerprint_verify_call(w2, restart_verify_step_1(w2))
             ELSE IF w.now - st.last_start_verify_time > 60
             THEN LET w2 == [w1 EXCEPT !.st.verifying = FALSE]
                  IN  fingerprint_verify_call(w2, start_verify(w2))
             ELSE IF w.now - st.last_signal_time > 60
             THEN LET w2 == [w1 EXCEPT !.st.rebind_usb = FALSE, !.st.restarting = TRUE,
                                       !.obs.restart = TRUE, !.hist.fresh = FALSE]
                  IN  fingerprint_verify_call(w2, restart_verify_step_1(w2))
             ELSE fingerprint_verify_tail(w1)
        ELSE fingerprint_verify_tail(w1)

\* fingerprint_verify, lines 736-822: after the iteration of the main context;
\* f.id is current_init_id
fingerprint_verify_body(w, f) ==
    IF f.id # w.st.init_id
    THEN fingerprint_verify_return(w, FALSE)
    ELSE IF w.st.restarting
    THEN fingerprint_verify_return(w, FALSE)
    ELSE IF w.st.flag_idle_restart # 0
    THEN fingerprint_verify_flag(w)
    ELSE IF w.now - w.st.last_start_verify_time > 60 /\ w.st.verifying
    THEN fingerprint_verify_return(fingerprint_deinit(w), FALSE)
    ELSE fingerprint_verify_tail(w)

(***************************************************************************)
(* Returning into the suspended callers.                                   *)
(***************************************************************************)
\* the callee of frame f has returned in world w (f already popped): the rest of f's function
Continue(w, f) ==
    IF f.fn = "fingerprint_init2" THEN init2_retry(w, f)
    ELSE IF f.fn = "open_device_async_get_default_device_cb"
    THEN get_default_device_settle(w, f.id, f.n)
    ELSE IF f.fn = "open_device_async_device_claim_cb" THEN claim_escalate(w, f.n)
    ELSE IF f.fn = "restart_verify_step_1" THEN restart_verify_step_1_finish(w)
    ELSE IF f.fn = "restart_verify_step_2" THEN restart_verify_step_2_finish(w)
    ELSE IF f.fn = "fingerprint_verify" THEN fingerprint_verify_return(w, FALSE)
    ELSE fingerprint_init_finish(w)

\* return through the callers until one of them iterates the main context again
RECURSIVE Return(_)
Return(w) ==
    IF w.stack = <<>> \/ Top(w).pc = "pump"
    THEN w
    ELSE LET w0 == Pop(w)
             w1 == Continue(w0, Top(w))
         IN  IF Suspended(w0, w1) THEN w1 ELSE Return(w1)

\* the loop of the top frame ends or goes on: w0 is the world without that frame
Leave(w0, w1) == IF Suspended(w0, w1) THEN w1 ELSE Return(w1)

(***************************************************************************)
(* The state machine.                                                      *)
(***************************************************************************)
\* the part of the unbounded behaviour that is explored
InBounds(w) ==
    /\ w.st.init_id <= w.env.epoch
    /\ Cardinality(w.pending) <= w.env.pending
    /\ Len(w.stack) <= w.env.depth
    /\ w.hist.devs <= w.env.devs
    /\ w.st.claim_device_fail_count <= w.env.claim_fail
    /\ w.st.continous_unknown_error_count <= w.env.streak
    /\ w.st.fail_count <= w.env.fail
    /\ w.st.restart_count <= w.env.restart

\* the step `act` leaves the world w
Apply(act, w) ==
    /\ InBounds(w)
    /\ state' = w.st
    /\ usb' = w.usb
    /\ now' = w.now
    /\ pending' = w.pending
    /\ stack' = w.stack
    /\ daemon' = w.daemon
    /\ obs' = [w.obs EXCEPT !.act = act]
    /\ hist' = w.hist
    /\ env' = env

BusAnswers == {"ok", "nobus", "nomanager"}
NoInput == [bus |-> "ok", pump |-> FALSE, stop |-> TRUE]
BusInput == {[NoInput EXCEPT !.bus = b] : b \in env.bus}
PumpInput == {[NoInput EXCEPT !.pump = b] : b \in env.pump}
BusPumpInput == {[NoInput EXCEPT !.bus = b, !.pump = q] : b \in env.bus, q \in env.pump}
StopInput == {[NoInput EXCEPT !.stop = b] : b \in env.stop}

\* the environment of the specification Spec: every answer of the bus, the daemon
\* and the forked child (ok: whether GetDefaultDevice, the proxy, Claim and
\* VerifyStart succeed), every signal, every argument of the caller
EnvSpec ==
    [bus |-> BusAnswers, pump |-> BOOLEAN, stop |-> BOOLEAN,
     ok |-> [GetDefaultDevice |-> BOOLEAN, ProxyNew |-> BOOLEAN, Claim |-> BOOLEAN,
             VerifyStart |-> BOOLEAN],
     results |-> Results, signals |-> {"VerifyStatus", "VerifyFingerSelected"},
     force |-> BOOLEAN, sleep |-> BOOLEAN,
     offsets |-> {0, 65},
     epoch |-> MaxEpoch, pending |-> MaxPending, depth |-> MaxDepth, devs |-> MaxDev,
     claim_fail |-> MaxClaimFail, streak |-> MaxStreak, fail |-> MaxFail,
     restart |-> MaxRestart]

\* some function of the core is iterating the main context: sources are dispatched
Dispatching == stack # <<>>
\* the caller of the core (the lock screen's own event loop) is running
Idle == stack = <<>> /\ daemon.sleep_proxy

Removed(w, c) == [w EXCEPT !.pending = @ \ {c}, !.obs.stale = (c.id # w.st.init_id)]

\* the daemon has granted the Claim call c if it answers with success
Granted(w, c, ok) == IF ok THEN [w EXCEPT !.daemon.claimed = @ \cup {c.dev}] ELSE w

InitIn(e) ==
    /\ env = e
    /\ state = ZeroState
    /\ usb = ZeroUsb
    /\ now = T0
    /\ pending = {}
    /\ stack = <<>>
    /\ daemon = ZeroDaemon
    /\ obs = NoObs
    /\ hist = ZeroHist

Init == InitIn(EnvSpec)

\* time(NULL) moves on
Tick ==
    \E o \in env.offsets :
        /\ T0 + o > now
        /\ now' = T0 + o
        /\ obs' = [NoObs EXCEPT !.act = "Tick"]
        /\ UNCHANGED <<state, usb, pending, stack, daemon, hist, env>>

Call_fingerprint_init ==
    /\ stack = <<>>
    /\ ~state.initialized
    /\ \E in \in BusInput : Apply("fingerprint_init", fingerprint_init(World(in)))

Call_fingerprint_deinit ==
    /\ Idle
    /\ state.initialized
    /\ Apply("fingerprint_deinit", fingerprint_deinit(World(NoInput)))

Call_fingerprint_set_restart_flag ==
    /\ Idle
    /\ \E force \in env.force :
          Apply("fingerprint_set_restart_flag", fingerprint_set_restart_flag(World(NoInput), force))

Call_fingerprint_verify ==
    /\ Idle
    /\ Apply("fingerprint_verify", fingerprint_verify(World(NoInput)))

\* fingerprint_verify goes on after g_main_context_iteration(NULL, FALSE)
Run_fingerprint_verify ==
    /\ Dispatching
    /\ Top(World(NoInput)).fn = "fingerprint_verify"
    /\ \E in \in BusPumpInput :
          LET w == World(in)
          IN  Apply("fingerprint_verify_body", Leave(Pop(w), fingerprint_verify_body(Pop(w), Top(w))))

Loop_fingerprint_init2 ==
    /\ Dispatching
    /\ Top(World(NoInput)).fn = "fingerprint_init2"
    /\ LET f == Top(World(NoInput))
       IN  f.id # state.init_id \/ f.n > 5 \/ now - f.t0 > 60 \/ now - f.t1 > 3
    /\ \E in \in BusPumpInput :
          LET w == World(in)
          IN  Apply("fingerprint_init2_loop", Leave(Pop(w), init2_iteration(Pop(w), Top(w))))

Loop_start_verify ==
    /\ Dispatching
    /\ Top(World(NoInput)).fn = "start_verify"
    /\ LET f == Top(World(NoInput))
       IN  f.id # state.init_id \/ now - f.t0 > 10 \/ state.started \/ state.error
    /\ LET w == World(NoInput)
       IN  Apply("start_verify_loop", Leave(Pop(w), start_verify_iteration(Pop(w), Top(w))))

Loop_run_main_context ==
    /\ Dispatching
    /\ Top(World(NoInput)).fn = "run_main_context"
    /\ LET f == Top(World(NoInput))
       IN  f.id # state.init_id \/ ~(now - f.t0 < 3)
    /\ LET w == World(NoInput)
       IN  Apply("run_main_context_loop", Leave(Pop(w), run_main_context_iteration(Pop(w), Top(w))))

\* restart_fingerprint_usb_device, lines 104-108: the child is done or 5 seconds passed
Loop_restart_fingerprint_usb_device ==
    /\ Dispatching
    /\ Top(World(NoInput)).fn = "restart_fingerprint_usb_device"
    /\ \E in \in BusInput :
          LET w == World(in)
          IN  Apply("restart_fingerprint_usb_device_loop", Leave(Pop(w), Pop(w)))

On_get_default_device ==
    /\ Dispatching
    /\ \E c \in pending, ok \in env.ok.GetDefaultDevice, in \in PumpInput :
          /\ c.op = "GetDefaultDevice"
          /\ Apply("open_device_async_get_default_device_cb",
                   open_device_async_get_default_device_cb(Removed(World(in), c), c, ok))

On_proxy_new ==
    /\ Dispatching
    /\ \E c \in pending, ok \in env.ok.ProxyNew :
          /\ c.op = "ProxyNew"
          /\ Apply("open_device_async_device_proxy_new_cb",
                   open_device_async_device_proxy_new_cb(Removed(World(NoInput), c), c, ok))

On_claim ==
    /\ Dispatching
    /\ \E c \in pending, ok \in env.ok.Claim, in \in PumpInput :
          /\ c.op = "Claim"
          /\ Apply("open_device_async_device_claim_cb",
                   open_device_async_device_claim_cb(Granted(Removed(World(in), c), c, ok), c, ok))

\* a cancelled call (c.n = 1) completes with an error
On_verify_started ==
    /\ Dispatching
    /\ \E c \in pending, ok \in env.ok.VerifyStart :
          /\ c.op = "VerifyStart"
          /\ c.n = 1 => ~ok
          /\ Apply("verify_started_cb", verify_started_cb(Removed(World(NoInput), c), c, ok))

On_restart_verify_step_1 ==
    /\ Dispatching
    /\ \E c \in pending, in \in PumpInput :
          /\ c.op = "step1"
          /\ Apply("restart_verify_step_1", restart_verify_step_1(Removed(World(in), c)))

On_restart_verify_step_2 ==
    /\ Dispatching
    /\ \E c \in pending, in \in BusInput :
          /\ c.op = "step2"
          /\ Apply("restart_verify_step_2", restart_verify_step_2(Removed(World(in), c)))

\* the daemon emits signals on the device the handler is connected to, while a
\* verification runs there or a VerifyStart call is on its way
CanSignal ==
    /\ state.device # 0
    /\ \/ daemon.verifying
       \/ \E c \in pending : c.op = "VerifyStart" /\ c.dev = state.device

On_proxy_signal ==
    /\ Dispatching
    /\ CanSignal
    /\ \E name \in env.signals, result \in env.results, in \in StopInput :
          /\ name # "VerifyStatus" => (result = "verify-match" /\ in.stop)
          /\ Apply("proxy_signal_cb", proxy_signal_cb(World(in), name, result))

On_sleep_signal ==
    /\ Dispatching
    /\ daemon.sleep_proxy
    /\ \E going_to_sleep \in env.sleep, in \in BusInput :
          /\ going_to_sleep => in.bus = "ok"
          /\ Apply("handle_sleep_signal", handle_sleep_signal(World(in), going_to_sleep))

Next ==
    \/ Tick
    \/ Call_fingerprint_init
    \/ Call_fingerprint_deinit
    \/ Call_fingerprint_set_restart_flag
    \/ Call_fingerprint_verify
    \/ Run_fingerprint_verify
    \/ Loop_fingerprint_init2
    \/ Loop_start_verify
    \/ Loop_run_main_context
    \/ Loop_restart_fingerprint_usb_device
    \/ On_get_default_device
    \/ On_proxy_new
    \/ On_claim
    \/ On_verify_started
    \/ On_restart_verify_step_1
    \/ On_restart_verify_step_2
    \/ On_proxy_signal
    \/ On_sleep_signal

Spec == Init /\ [][Next]_vars

(***************************************************************************)
(* The recovery controller on its own: restart_fingerprint_usb_device       *)
(* called with any arguments at any time.                                   *)
(***************************************************************************)
\* last second of the clock of SpecReset, counted from T0
MaxResetTime == 7

EnvReset == [EnvSpec EXCEPT !.offsets = 0..MaxResetTime]

Call_restart_fingerprint_usb_device ==
    \E full \in BOOLEAN, wait \in BOOLEAN, in \in PumpInput :
        Apply("restart_fingerprint_usb_device",
              restart_fingerprint_usb_device(World(in), full, wait))

NextReset ==
    \/ Tick
    \/ Call_restart_fingerprint_usb_device
    \/ Loop_restart_fingerprint_usb_device

SpecReset == InitIn(EnvReset) /\ [][NextReset]_vars

\* the reset command ran in the step that led to this state
Invoked(o) == o.reset \in {"soft", "full"}

\* C6: a call of restart_fingerprint_usb_device less than 3 seconds after the
\* reset command last ran with "full" does not run the command and leaves the
\* tracker as it is; any other call made after the command has run before
\* (within the last 3 seconds or earlier in the process) runs it with "full",
\* also when soft was asked for, so a soft reset never follows another reset
\* by less than 3 seconds
C6_ResetPolicy ==
    [][obs'.request # "none" =>
          IF hist.full_at # 0 /\ now' - hist.full_at < 3
          THEN obs'.reset = "skipped" /\ usb' = usb /\ hist'.reset_at = hist.reset_at
          ELSE IF hist.reset_at # 0
          THEN obs'.reset = "full"
          ELSE Invoked(obs')]_vars

\* C6 witness: soft was asked for less than 3 seconds after a reset, and full was run
C6_Witness == obs.request = "soft" /\ obs.reset = "full" /\ obs.since >= 0 /\ obs.since < 3

\* C7 as stated: any two runs of the reset command are at least 3 seconds apart
C7_NeverBackToBack ==
    [][Invoked(obs') /\ hist.reset_at # 0 => now' - hist.reset_at >= 3]_vars

\* C7 amended: the reset command never runs less than 3 seconds after it ran with
\* "full"; when it runs less than 3 seconds after an earlier run, that earlier
\* run was a soft reset and this one is a full reset
C7_NeverAfterFull ==
    [][Invoked(obs') /\ hist.reset_at # 0 =>
          /\ hist.full_at # 0 => now' - hist.full_at >= 3
          /\ now' - hist.reset_at < 3 =>
                obs'.reset = "full" /\ hist.full_at # hist.reset_at]_vars

\* C7 witness: the command ran with "full" less than 3 seconds after a soft reset
C7_Witness == obs.reset = "full" /\ obs.since >= 0 /\ obs.since < 3 /\ hist.full_at = now

(***************************************************************************)
(* Suspend and resume while the device is being acquired and verification   *)
(* is being started: the daemon answers every call with success, VerifyStop *)
(* succeeds, the only result is verify-match.                               *)
(***************************************************************************)
EnvStale ==
    [EnvSpec EXCEPT !.bus = {"ok"}, !.pump = {FALSE}, !.stop = {TRUE},
                    !.ok = [GetDefaultDevice |-> {TRUE}, ProxyNew |-> {TRUE},
                            Claim |-> {TRUE}, VerifyStart |-> {TRUE}],
                    !.results = {"verify-match"}, !.signals = {"VerifyStatus"},
                    !.sleep = BOOLEAN, !.offsets = {0}]

NextStale ==
    \/ Call_fingerprint_init
    \/ Call_fingerprint_verify
    \/ Run_fingerprint_verify
    \/ Loop_start_verify
    \/ On_get_default_device
    \/ On_proxy_new
    \/ On_claim
    \/ On_verify_started
    \/ On_proxy_signal
    \/ On_sleep_signal

SpecStale == InitIn(EnvStale) /\ [][NextStale]_vars

\* C1: a continuation that runs under another epoch than the one it was issued
\* under leaves every field of the Session state as it was
C1_StaleIsDiscarded == [][obs'.stale => state' = state]_vars

\* C2: fingerprint_verify returns true only if the last classified outcome was
\* verify-match, delivered on the device now held, after the daemon confirmed
\* the most recent VerifyStart, with no restart or new round begun since
C2_TrueOnlyOnConfirmedMatch ==
    obs.ret = "true" =>
        /\ hist.outcome = "match"
        /\ state.device # 0 /\ hist.sigdev = state.device
        /\ hist.sigconfirmed
        /\ hist.fresh

(***************************************************************************)
(* Classification of the daemon's results: every result code may arrive,    *)
(* all daemon calls succeed, the caller reports activity and may close and  *)
(* reopen the session.                                                      *)
(***************************************************************************)
EnvClassify ==
    [EnvSpec EXCEPT !.bus = {"ok"}, !.pump = {FALSE}, !.stop = {TRUE},
                    !.ok = [GetDefaultDevice |-> {TRUE}, ProxyNew |-> {TRUE},
                            Claim |-> {TRUE}, VerifyStart |-> {TRUE}],
                    !.signals = {"VerifyStatus"}, !.force = {FALSE},
                    !.offsets = {0}]

NextClassify ==
    \/ Call_fingerprint_init
    \/ Call_fingerprint_deinit
    \/ Call_fingerprint_set_restart_flag
    \/ Call_fingerprint_verify
    \/ Run_fingerprint_verify
    \/ Loop_start_verify
    \/ On_get_default_device
    \/ On_proxy_new
    \/ On_claim
    \/ On_verify_started
    \/ On_proxy_signal
    \/ On_restart_verify_step_1
    \/ On_restart_verify_step_2

SpecClassify == InitIn(EnvClassify) /\ [][NextClassify]_vars

\* verify_result classified a result in the step that led to this state
Classified(o) == o.result # "none"

\* C8: after verify_result classifies a result other than verify-unknown-error,
\* continous_unknown_error_count is 0; after verify-unknown-error it is one
\* more than before
C8_StreakCounter ==
    [][Classified(obs') =>
          state'.continous_unknown_error_count =
              IF obs'.result = "verify-unknown-error"
              THEN state.continous_unknown_error_count + 1
              ELSE 0]_vars

\* C9: with VerifyStop succeeding, the subsystem enabled and the caller active
\* in the last 60 seconds, verify_result schedules a restart exactly when the
\* result ends a run of more than 3 consecutive verify-unknown-error results
C9_RestartOnFourthUnknown ==
    [][/\ Classified(obs')
       /\ ~should_disable_fingerprint(state')
       /\ now - state.last_activity_time <= 60
       => (obs'.restart <=> hist'.streak > 3)]_vars

(***************************************************************************)
(* Claim failing: the daemon finds and opens the device, and may refuse     *)
(* every Claim.                                                             *)
(***************************************************************************)
EnvClaim ==
    [EnvSpec EXCEPT !.bus = {"ok"}, !.stop = {TRUE},
                    !.ok = [GetDefaultDevice |-> {TRUE}, ProxyNew |-> {TRUE},
                            Claim |-> BOOLEAN, VerifyStart |-> {TRUE}],
                    !.results = {"verify-no-match"}, !.signals = {"VerifyStatus"},
                    !.force = {FALSE}, !.offsets = {0, 1}, !.restart = 2,
                    !.depth = 3]

NextClaim ==
    \/ Tick
    \/ Call_fingerprint_init
    \/ Call_fingerprint_verify
    \/ Run_fingerprint_verify
    \/ Loop_start_verify
    \/ Loop_restart_fingerprint_usb_device
    \/ On_get_default_device
    \/ On_proxy_new
    \/ On_claim
    \/ On_verify_started
    \/ On_restart_verify_step_1
    \/ On_restart_verify_step_2

SpecClaim == InitIn(EnvClaim) /\ [][NextClaim]_vars

\* C5: in every acquisition the device reset and the scheduling of the restart
\* happen on the 3rd failed Claim of that acquisition, never on the 1st or 2nd
C5_EscalateOnThirdClaim == [][obs'.attempts # 0 => obs'.attempts = 3]_vars

(***************************************************************************)
(* Reaching the failure cap: the daemon reports verify-no-match or          *)
(* verify-match, VerifyStop may fail, the system may resume from sleep.     *)
(***************************************************************************)
EnvDisabled ==
    [EnvSpec EXCEPT !.bus = {"ok"}, !.pump = {FALSE},
                    !.ok = [GetDefaultDevice |-> {TRUE}, ProxyNew |-> {TRUE},
                            Claim |-> {TRUE}, VerifyStart |-> {TRUE}],
                    !.results = {"verify-no-match", "verify-match"},
                    !.signals = {"VerifyStatus"},
                    !.sleep = {FALSE}, !.offsets = {0}, !.fail = 10]

NextDisabled ==
    \/ Call_fingerprint_init
    \/ Call_fingerprint_verify
    \/ Run_fingerprint_verify
    \/ Loop_start_verify
    \/ On_get_default_device
    \/ On_proxy_new
    \/ On_claim
    \/ On_verify_started
    \/ On_proxy_signal
    \/ On_sleep_signal

SpecDisabled == InitIn(EnvDisabled) /\ [][NextDisabled]_vars

\* C3: while fail_count >= 10 or restart_count >= 3, fingerprint_verify
\* returns false
C3_DisabledNeverTrue == should_disable_fingerprint(state) => obs.ret # "true"

\* C4: while fail_count >= 10 or restart_count >= 3, no operation issues
\* GetDefaultDevice, the proxy open, Claim or VerifyStart
C4_DisabledIssuesNothing ==
    [][should_disable_fingerprint(state) /\ should_disable_fingerprint(state') =>
          obs'.issued \cap {"GetDefaultDevice", "ProxyNew", "Claim", "VerifyStart"} = {}]_vars

(***************************************************************************)
(* A well-behaved daemon and a caller that keeps polling: every daemon call *)
(* succeeds, each round ends with verify-match or verify-no-match, the      *)
(* caller reports key presses, time passes.                                 *)
(***************************************************************************)
EnvMatch ==
    [EnvSpec EXCEPT !.bus = {"ok"}, !.pump = {FALSE}, !.stop = {TRUE},
                    !.ok = [GetDefaultDevice |-> {TRUE}, ProxyNew |-> {TRUE},
                            Claim |-> {TRUE}, VerifyStart |-> {TRUE}],
                    !.results = {"verify-match", "verify-no-match"},
                    !.signals = {"VerifyStatus"}, !.force = {FALSE}]

\* the caller opens the session once: fingerprint_init on the zeroed structure
Call_fingerprint_init_once == state.init_id = 0 /\ Call_fingerprint_init

NextMatch ==
    \/ Tick
    \/ Call_fingerprint_init_once
    \/ Call_fingerprint_set_restart_flag
    \/ Call_fingerprint_verify
    \/ Run_fingerprint_verify
    \/ Loop_start_verify
    \/ On_get_default_device
    \/ On_proxy_new
    \/ On_claim
    \/ On_verify_started
    \/ On_restart_verify_step_1
    \/ On_restart_verify_step_2
    \/ On_proxy_signal

\* the caller keeps polling, and a wait loop goes on when its iteration returns
SpecMatch ==
    /\ InitIn(EnvMatch)
    /\ [][NextMatch]_vars
    /\ WF_vars(Call_fingerprint_verify)
    /\ WF_vars(Run_fingerprint_verify)
    /\ WF_vars(Loop_start_verify)

\* the round on the held device has ended with verify-match
MatchHeld == state.match /\ state.completed /\ state.device # 0

Waiting == \E i \in 1..Len(stack) : stack[i].fn = "start_verify"

\* the round has ended with verify-match and the wait of start_verify is over
\* without having timed out
MatchSettled == MatchHeld /\ ~Waiting /\ ~state.restarting

EnvDiscover ==
    [EnvSpec EXCEPT !.bus = {"ok"}, !.stop = {TRUE},
                    !.ok = [GetDefaultDevice |-> BOOLEAN, ProxyNew |-> {TRUE},
                            Claim |-> {TRUE}, VerifyStart |-> {TRUE}],
                    !.offsets = {0, 3, 6}, !.depth = 3]

NextDiscover ==
    \/ Tick
    \/ Call_fingerprint_init_once
    \/ Call_fingerprint_verify
    \/ Run_fingerprint_verify
    \/ Loop_start_verify
    \/ Loop_run_main_context
    \/ Loop_restart_fingerprint_usb_device
    \/ On_get_default_device
    \/ On_proxy_new
    \/ On_claim
    \/ On_verify_started

SpecDiscover == InitIn(EnvDiscover) /\ [][NextDiscover]_vars

\* the acquisition was given up after the 5th failed GetDefaultDevice
Abandoned == state.open_device_fail_count = 5 /\ ~state.openning_device

\* a step of a fingerprint_verify poll
Polling(o) == o.act \in {"fingerprint_verify", "fingerprint_verify_body"}

\* C11: the callback of a failed GetDefaultDevice issues the call again only
\* after fewer than 5 failures, and nothing else; once the 5th has failed, a
\* fingerprint_verify poll with no idle-restart flag pending issues no daemon call
C11_AbandonedStaysQuiet ==
    [][/\ (obs'.act = "open_device_async_get_default_device_cb"
              /\ state'.open_device_fail_count > 0) =>
             /\ obs'.issued \subseteq {"GetDefaultDevice"}
             /\ "GetDefaultDevice" \in obs'.issued => state'.open_device_fail_count < 5
       /\ (Abandoned /\ state.flag_idle_restart = 0 /\ Polling(obs')) =>
             obs'.issued = {}]_vars

(***************************************************************************)
(* The caller asking for a forced restart: the daemon answers every call,   *)
(* the caller sets the flag with force and polls, 0 to 5 seconds go by.     *)
(***************************************************************************)
EnvForce ==
    [EnvSpec EXCEPT !.bus = {"ok"}, !.pump = {FALSE}, !.stop = {TRUE},
                    !.ok = [GetDefaultDevice |-> {TRUE}, ProxyNew |-> {TRUE},
                            Claim |-> {TRUE}, VerifyStart |-> {TRUE}],
                    !.force = {TRUE}, !.offsets = {0, 2, 3, 5}, !.depth = 3]

NextForce ==
    \/ Tick
    \/ Call_fingerprint_init_once
    \/ Call_fingerprint_set_restart_flag
    \/ Call_fingerprint_verify
    \/ Run_fingerprint_verify
    \/ Loop_start_verify
    \/ On_get_default_device
    \/ On_proxy_new
    \/ On_claim
    \/ On_verify_started
    \/ On_restart_verify_step_2

SpecForce == InitIn(EnvForce) /\ [][NextForce]_vars

\* the poll that is about to run its body finds the flag pending with force, in
\* a session that is initialized, not disabled, not matched and not restarting
ForcePending ==
    /\ stack # <<>>
    /\ stack[Len(stack)].fn = "fingerprint_verify"
    /\ stack[Len(stack)].pc = "pump"
    /\ stack[Len(stack)].id = state.init_id
    /\ state.flag_idle_restart \div 2 = 1
    /\ state.initialized
    /\ ~should_disable_fingerprint(state)
    /\ ~state.match
    /\ ~state.restarting

\* the step is a full restart: epoch bumped, device and connection gone, step 2 scheduled
FullRestart ==
    /\ obs'.restart
    /\ state'.restarting
    /\ state'.init_id > state.init_id
    /\ state'.device = 0
    /\ ~state'.manager
    /\ ~state'.connection
    /\ "step2" \in obs'.issued

\* C12: a poll that finds the flag pending with force restarts the session in
\* full when 3 or more seconds passed since the last verify-start attempt
\* (exactly 3 included), does not when fewer passed, and consumes the flag
C12_ForcedRestartFromThree ==
    [][(ForcePending /\ obs'.act = "fingerprint_verify_body") =>
          /\ now - state.last_start_verify_time >= 3 => FullRestart
          /\ now - state.last_start_verify_time < 3 => ~obs'.restart
          /\ state'.flag_idle_restart = 0]_vars

(***************************************************************************)
(* Suspend and resume during verification: the daemon answers every call,   *)
(* the bus may be gone when the system resumes, the caller polls.           *)
(***************************************************************************)
EnvSleep ==
    [EnvSpec EXCEPT !.bus = {"ok", "nobus"}, !.pump = {FALSE}, !.stop = {TRUE},
                    !.ok = [GetDefaultDevice |-> {TRUE}, ProxyNew |-> {TRUE},
                            Claim |-> {TRUE}, VerifyStart |-> {TRUE}],
                    !.sleep = BOOLEAN, !.offsets = {0, 4}, !.depth = 3]

NextSleep ==
    \/ Tick
    \/ Call_fingerprint_init_once
    \/ Call_fingerprint_verify
    \/ Run_fingerprint_verify
    \/ Loop_fingerprint_init2
    \/ Loop_start_verify
    \/ On_get_default_device
    \/ On_proxy_new
    \/ On_claim
    \/ On_verify_started
    \/ On_sleep_signal

SpecSleep == InitIn(EnvSleep) /\ [][NextSleep]_vars

\* a timer of the full restart sequence is armed
RestartScheduled(p) == \E c \in p : c.op \in {"step1", "step2"}

\* verification is running: the device is held and no restart is pending
VerificationRunning ==
    /\ state.device # 0
    /\ state.verifying
    /\ ~state.restarting
    /\ ~RestartScheduled(pending)

\* handle_sleep_signal ran with going_to_sleep (only the resume asks for a reset)
WentToSleep == obs'.act = "handle_sleep_signal" /\ obs'.request = "none"
Resumed == obs'.act = "handle_sleep_signal" /\ obs'.request # "none"

\* the stack holds no wait for the child of the reset command
ResetWaited(s) == \A i \in 1..Len(s) : s[i].fn # "restart_fingerprint_usb_device"

\* bootstrap has run: the session is initialized and has its manager and
\* connection, or is still trying to get them
Bootstrapped(st, s) ==
    /\ st.initialized
    /\ \/ st.manager /\ st.connection
       \/ s # <<>> /\ s[Len(s)].fn = "fingerprint_init2"

\* a poll called since the system resumed, with no flag pending, runs its body
\* under the epoch the resume left, with the manager and the connection there
PollAfterResume ==
    /\ obs'.act = "fingerprint_verify_body"
    /\ hist.woke = state.init_id
    /\ stack[Len(stack)].id = state.init_id
    /\ state.flag_idle_restart = 0
    /\ state.manager
    /\ state.connection

EnvEpoch ==
    [EnvSpec EXCEPT !.bus = {"ok"}, !.pump = {FALSE}, !.stop = {TRUE},
                    !.ok = [GetDefaultDevice |-> {TRUE}, ProxyNew |-> {TRUE},
                            Claim |-> {TRUE}, VerifyStart |-> {TRUE}],
                    !.offsets = {0}]

NextEpoch ==
    \/ Call_fingerprint_init
    \/ Call_fingerprint_deinit
    \/ Call_fingerprint_verify
    \/ Run_fingerprint_verify
    \/ Loop_start_verify
    \/ On_get_default_device
    \/ On_proxy_new
    \/ On_claim
    \/ On_verify_started

SpecEpoch == InitIn(EnvEpoch) /\ [][NextEpoch]_vars

\* C14: no step decreases init_id, and a continuation whose tag is older than
\* init_id stays older than init_id as long as it is in flight
C14_EpochMonotonic ==
    [][/\ state'.init_id >= state.init_id
       /\ \A c \in pending \cap pending' :
             c.id < state.init_id => c.id < state'.init_id]_vars

(***************************************************************************)
(* Signals during the wait of start_verify, under suspend and resume.       *)
(***************************************************************************)
\* the VerifyStart call of the round that start_verify began last is not complete
VerifyStartInFlight ==
    \E c \in pending :
        /\ c.op = "VerifyStart"
        /\ c.k = hist.curv
        /\ c.id = state.init_id
        /\ c.dev = state.device

\* C15: a signal delivered while the VerifyStart call of the current round
\* is not complete changes none of match, completed, verifying, fail_count
\* and the unknown-error streak
C15_EarlySignalIgnored ==
    [][(obs'.act = "proxy_signal_cb" /\ VerifyStartInFlight) =>
          /\ state'.match = state.match
          /\ state'.completed = state.completed
          /\ state'.verifying = state.verifying
          /\ state'.fail_count = state.fail_count
          /\ state'.continous_unknown_error_count = state.continous_unknown_error_count]_vars

(***************************************************************************)
(* Bootstrap with the bus or the manager unavailable: the caller opens the  *)
(* session and polls, up to 65 seconds go by.                               *)
(***************************************************************************)
EnvBoot ==
    [EnvSpec EXCEPT !.stop = {TRUE}, !.offsets = {0, 4, 8, 12, 16, 20, 65}, !.depth = 3]

NextBoot ==
    \/ Tick
    \/ Call_fingerprint_init_once
    \/ Call_fingerprint_verify
    \/ Run_fingerprint_verify
    \/ Loop_fingerprint_init2
    \/ Loop_restart_fingerprint_usb_device

SpecBoot == InitIn(EnvBoot) /\ [][NextBoot]_vars

\* the frame of the loop of fingerprint_init2 that the stack s holds (one at most)
Init2Frames(s) == {s[i] : i \in {j \in 1..Len(s) : s[j].fn = "fingerprint_init2"}}

\* the loop of fingerprint_init2 gives up in this step
GivesUp ==
    /\ obs'.act = "fingerprint_init2_loop"
    /\ obs'.driver_message = <<"Failed to initialize fingerprint">>

\* the loop of fingerprint_init2 tries to connect again in this step, for the n-th time
Retries(n) ==
    /\ obs'.act = "fingerprint_init2_loop"
    /\ \E f \in Init2Frames(stack) : f.pc = "pump" /\ f.id = state.init_id /\ n = f.n + 1
    /\ \/ state'.manager /\ state'.connection
       \/ \E f \in Init2Frames(stack') : f.n = n

\* C16: bootstrap makes at most 5 attempts to connect, the first included;
\* when it gives up, it has made 5 or more than 60 seconds have passed since it
\* began, it reports the failure and the manager or the connection is absent;
\* every second attempt, and no other, is preceded by a request for a soft reset
C16_BootstrapGivesUp ==
    [][/\ \A f \in Init2Frames(stack') : f.n <= 5
       /\ GivesUp =>
             /\ ~(state'.manager /\ state'.connection)
             /\ state'.driver_status # <<>>
             /\ \E f \in Init2Frames(stack) : f.n = 5 \/ now - f.t0 > 60
       /\ \A n \in 2..6 : Retries(n) => (obs'.request = "soft" <=> n % 2 = 0)]_vars

(***************************************************************************)
(* Full restarts until the session is disabled: the caller forces restarts  *)
(* and polls, the daemon answers every call.                                *)
(***************************************************************************)
\* full restarts explored: the disable threshold of should_disable_fingerprint
MaxRounds == 3

EnvRestart ==
    [EnvForce EXCEPT !.offsets = {0}, !.restart = MaxRounds, !.epoch = 3 * MaxRounds + 1]

NextRestart ==
    \/ Call_fingerprint_init_once
    \/ Call_fingerprint_set_restart_flag
    \/ Call_fingerprint_verify
    \/ Run_fingerprint_verify
    \/ Loop_start_verify
    \/ On_get_default_device
    \/ On_proxy_new
    \/ On_claim
    \/ On_verify_started
    \/ On_restart_verify_step_2

SpecRestart == InitIn(EnvRestart) /\ [][NextRestart]_vars

\* the step entered fingerprint_verify: its frame is the new top of the stack
ReEntered ==
    /\ Len(stack') = Len(stack) + 1
    /\ stack'[Len(stack')].fn = "fingerprint_verify"
    /\ stack'[Len(stack')].pc = "pump"

\* C17: step 2 of a full restart re-runs bootstrap, adds exactly 1 to
\* restart_count and leaves restarting false; it re-enters verification if and
\* only if the session is not disabled after the increment
C17_StepTwo ==
    [][obs'.act = "restart_verify_step_2" =>
          /\ state'.restart_count = state.restart_count + 1
          /\ ~state'.restarting
          /\ state'.initialized /\ state'.init_id = state.init_id + 1
          /\ ReEntered <=> ~should_disable_fingerprint(state')]_vars

(***************************************************************************)
(* The claims the daemon holds for the session, under suspend and resume.   *)
(***************************************************************************)
\* C18: every claim that the daemon granted and was not asked to release is
\* the claim of the device the session holds, and a Claim call is issued only
\* when the daemon holds no claim of the session
C18_ClaimsAreReleased ==
    [][/\ \A d \in daemon'.claimed : d = state'.device
       /\ "Claim" \in obs'.issued => daemon'.claimed = {}]_vars

(***************************************************************************)
(* Unknown errors in a row, with the caller active or not: the daemon       *)
(* answers every call, VerifyStop may fail, 0 to 61 seconds go by.          *)
(***************************************************************************)
EnvActivity ==
    [EnvClassify EXCEPT !.stop = BOOLEAN, !.results = {"verify-unknown-error"},
                        !.offsets = {0, 60, 61}]

NextActivity ==
    \/ Tick
    \/ Call_fingerprint_init_once
    \/ Call_fingerprint_set_restart_flag
    \/ Call_fingerprint_verify
    \/ Run_fingerprint_verify
    \/ Loop_start_verify
    \/ On_get_default_device
    \/ On_proxy_new
    \/ On_claim
    \/ On_verify_started
    \/ On_proxy_signal
    \/ On_restart_verify_step_1
    \/ On_restart_verify_step_2

SpecActivity == InitIn(EnvActivity) /\ [][NextActivity]_vars

\* verify_result decides on a restart in this step: the result makes the streak
\* exceed 3, the match is negative and the disable policy has not tripped
Decided ==
    /\ obs'.act = "proxy_signal_cb"
    /\ obs'.result = "verify-unknown-error"
    /\ state.continous_unknown_error_count >= 3
    /\ ~should_disable_fingerprint(state')
    /\ ~state'.match

StopFailed == obs'.driver_message = <<"Failed to stop verification: %s">>

\* a full restart is scheduled and the session is not torn down
RestartNotTeardown ==
    /\ state'.restarting
    /\ "step1" \in obs'.issued
    /\ state'.initialized = state.initialized
    /\ state'.init_id = state.init_id
    /\ state'.device = state.device
    /\ state'.manager = state.manager /\ state'.connection = state.connection

\* the session is torn down and no restart is scheduled
TeardownNotRestart ==
    /\ ~state'.initialized
    /\ state'.init_id = state.init_id + 1
    /\ state'.device = 0
    /\ ~state'.manager /\ ~state'.connection
    /\ ~state'.restarting
    /\ "step1" \notin obs'.issued

EnvRetry ==
    [EnvClassify EXCEPT !.stop = BOOLEAN,
                        !.results = {"verify-match", "verify-retry-scan", "verify-remove-and-retry"},
                        !.offsets = {0, 2}]

NextRetry ==
    \/ Tick
    \/ Call_fingerprint_init_once
    \/ Call_fingerprint_verify
    \/ Run_fingerprint_verify
    \/ Loop_start_verify
    \/ On_get_default_device
    \/ On_proxy_new
    \/ On_claim
    \/ On_verify_started
    \/ On_proxy_signal

SpecRetry == InitIn(EnvRetry) /\ [][NextRetry]_vars

\* C20: when verify_result classifies a retryable result, the streak is 0
\* afterwards, and verifying, started, completed, match, restarting, fail_count,
\* restart_count and the device are as before; VerifyStop is not issued and no
\* restart is scheduled
C20_RetryableFrame ==
    [][(obs'.act = "proxy_signal_cb" /\ obs'.result \in Retryable) =>
          /\ state'.continous_unknown_error_count = 0
          /\ state'.verifying = state.verifying
          /\ state'.started = state.started
          /\ state'.completed = state.completed
          /\ state'.match = state.match
          /\ state'.restarting = state.restarting
          /\ state'.fail_count = state.fail_count
          /\ state'.restart_count = state.restart_count
          /\ state'.device = state.device
          /\ obs'.issued = {}
          /\ ~obs'.restart]_vars

(***************************************************************************)
(* A verification left running: the daemon answers every call and sends no  *)
(* result, the caller polls, 59 to 61 seconds go by.                        *)
(***************************************************************************)
EnvIdle ==
    [EnvSpec EXCEPT !.bus = {"ok"}, !.pump = {FALSE}, !.stop = {TRUE},
                    !.ok = [GetDefaultDevice |-> {TRUE}, ProxyNew |-> {TRUE},
                            Claim |-> {TRUE}, VerifyStart |-> {TRUE}],
                    !.offsets = {0, 59, 60, 61}, !.depth = 3]

NextIdle ==
    \/ Tick
    \/ Call_fingerprint_init_once
    \/ Call_fingerprint_verify
    \/ Run_fingerprint_verify
    \/ Loop_start_verify
    \/ On_get_default_device
    \/ On_proxy_new
    \/ On_claim
    \/ On_verify_started
    \/ On_restart_verify_step_1
    \/ On_restart_verify_step_2

SpecIdle == InitIn(EnvIdle) /\ [][NextIdle]_vars

\* the poll that is about to run its body has no flag pending and no restart
\* in progress, and the epoch is the one it was called under
PlainPoll ==
    /\ stack # <<>>
    /\ stack[Len(stack)].fn = "fingerprint_verify"
    /\ stack[Len(stack)].pc = "pump"
    /\ stack[Len(stack)].id = state.init_id
    /\ state.flag_idle_restart = 0
    /\ ~state.restarting

\* the step is fingerprint_deinit: device released, connection torn down
Deinited ==
    /\ ~state'.initialized
    /\ state'.init_id = state.init_id + 1
    /\ state'.device = 0
    /\ state.device # 0 => "Release" \in obs'.issued
    /\ ~state'.manager /\ ~state'.connection

\* C21: a poll with no flag pending and no restart in progress deinits the
\* session and does not return true when verification is running and 60 or
\* more seconds (exactly 60 included) passed since it was started, and does not
\* deinit when verification is not running or fewer than 60 seconds passed
C21_IdleDeinitFromSixty ==
    [][(PlainPoll /\ obs'.act = "fingerprint_verify_body") =>
          IF state.verifying /\ now - state.last_start_verify_time >= 60
          THEN Deinited /\ obs'.ret # "true"
          ELSE state'.initialized = state.initialized /\ state'.init_id = state.init_id]_vars

(***************************************************************************)
(* Suspend while a restart is pending or the device is being acquired: the  *)
(* caller forces restarts and polls, VerifyStart may time out.              *)
(***************************************************************************)
EnvSuspend ==
    [EnvForce EXCEPT !.sleep = BOOLEAN, !.offsets = {0, 11}]

NextSuspend ==
    \/ Tick
    \/ Call_fingerprint_init_once
    \/ Call_fingerprint_set_restart_flag
    \/ Call_fingerprint_verify
    \/ Run_fingerprint_verify
    \/ Loop_start_verify
    \/ On_get_default_device
    \/ On_proxy_new
    \/ On_claim
    \/ On_verify_started
    \/ On_restart_verify_step_1
    \/ On_restart_verify_step_2
    \/ On_sleep_signal

SpecSuspend == InitIn(EnvSuspend) /\ [][NextSuspend]_vars

\* the calls made to the daemon, Release apart
DaemonCalls == {"GetDefaultDevice", "ProxyNew", "Claim", "VerifyStart", "VerifyStop"}

\* C22: from the handling of PrepareForSleep(true) until PrepareForSleep(false)
\* arrives or the caller calls fingerprint_set_restart_flag, the session stays
\* torn down: bootstrap is not re-run, and no call other than Release is made
\* to the daemon
C22_StaysTornDownAsleep ==
    [][(hist.asleep /\ hist'.asleep) =>
          /\ ~state'.initialized
          /\ ~state'.manager /\ ~state'.connection
          /\ state'.device = 0
          /\ obs'.issued \cap DaemonCalls = {}]_vars

(***************************************************************************)
(* The restart chain: restarting against the timers of step 1 and step 2.   *)
(***************************************************************************)
\* the timers of the full restart sequence that are armed
RestartTimers == {c \in pending : c.op \in {"step1", "step2"}}

\* restart_verify_step_1 is running: it waits for the child of the reset command
\* and has not armed the timer of step 2 yet
StepOneRunning == \E i \in 1..Len(stack) : stack[i].fn = "restart_verify_step_1"

\* the restart chains in flight
Chains == Cardinality(RestartTimers) + (IF StepOneRunning THEN 1 ELSE 0)

\* C23 (safety): restarting is true exactly when one restart chain is in flight
\* (a timer of step 1 or step 2 armed, or step 1 running), and there is never
\* more than one
C23_OneRestartChain == (state.restarting <=> Chains = 1) /\ Chains <= 1

(***************************************************************************)
(* Verification rounds on one device handle.                                *)
(***************************************************************************)
\* the step issues VerifyStart on the handle the session already held, on
\* which the daemon is running the verification that an earlier VerifyStart began
StartsOverRunningRound ==
    /\ "VerifyStart" \in obs'.issued
    /\ state.device # 0
    /\ state'.device = state.device
    /\ daemon.verifying

\* C24: a VerifyStart call is issued on a handle on which an earlier round is
\* running only after a VerifyStop call was made for that round
C24_RoundsDoNotOverlap == [][StartsOverRunningRound => hist.stops > 0]_vars

====
